---- MODULE Spec2Model ----
(***************************************************************************)
(* Model of src/app_rips_notas.py: the services block of each user of the  *)
(* note (nota) is filled from the invoice (factura) by                     *)
(* copiar_servicios_factura_a_nota, and per-line values are written by     *)
(* aplicar_plantilla_servicios from the rows of an uploaded template.      *)
(*                                                                         *)
(* JSON values are records of one shape, so that any two of them compare:  *)
(*   scalar   [k, n, s]   k in "num" | "str" | "null" | "falta"            *)
(*            ("falta": the key is not in the dict)                        *)
(*   item     [vrServicio, valorPagoModerador, codServicio] of scalars     *)
(*   lista    [p, l]      p: the key is in servicios, l: its items         *)
(*   servicios [k, m]     k in "nokey" | "null" | "dict", m: tipo -> lista *)
(*   usuario  [tipo, num, servicios]                                       *)
(* Python objects are mutable and shared by reference.  The documents are  *)
(* kept as values, and alias records which objects reachable from the nota *)
(* are the very objects of the factura: a write through such an object is  *)
(* a write to the factura too.                                             *)
(***************************************************************************)
EXTENDS Integers, Sequences, FiniteSets, TLC

VARIABLES
    factura,        \* st.session_state["factura_data"]
    nota,           \* the usuarios of st.session_state["nota_data"]
    alias,          \* the objects of the nota that are objects of the factura
    pc,             \* "idle", "filas" (in the loop over the rows), "abortado"
    ultima_fila,    \* the row of the template the loop is at
    errores,        \* the errors of the template being applied
    ultimo_signo,   \* forzar_signo of the last copy (0: None)
    resumen,        \* the summary the last copy returned
    nota_previa,    \* the nota object the session held when the last handler began
    malos,          \* what validar_estructura_servicios returned after the last copy
    nfilas, nops    \* rows processed and handlers started, for the bounds

vars == <<factura, nota, alias, pc, ultima_fila, errores, ultimo_signo, resumen,
          nota_previa, malos, nfilas, nops>>

\* template rows and handler invocations of one session
MaxRows == 2
MaxOps == 2

-----------------------------------------------------------------------------
\* JSON scalars
Num(n) == [k |-> "num", n |-> n, s |-> ""]
Str(s) == [k |-> "str", n |-> 0, s |-> s]
Nulo == [k |-> "null", n |-> 0, s |-> ""]
Falta == [k |-> "falta", n |-> 0, s |-> ""]

Item(vr, vpm, cod) == [vrServicio |-> vr, valorPagoModerador |-> vpm, codServicio |-> cod]
\* {}
ItemVacio == Item(Falta, Falta, Falta)

Tipos == {"consultas", "procedimientos"}

SinLista == [p |-> FALSE, l |-> <<>>]
Lista(l) == [p |-> TRUE, l |-> l]
MapaVacio == [c \in Tipos |-> SinLista]

\* the usuario has no "servicios" key / "servicios": null / "servicios": {...}
SinClave == [k |-> "nokey", m |-> MapaVacio]
ServNulo == [k |-> "null", m |-> MapaVacio]
Dict(m) == [k |-> "dict", m |-> m]

Usuario(tipo, num, servicios) == [tipo |-> tipo, num |-> num, servicios |-> servicios]

\* u.get("servicios"): None when the key is missing
GetServicios(u) == IF u.servicios.k = "nokey" THEN ServNulo ELSE u.servicios
\* u.get("servicios", {}): a new empty dict when the key is missing
GetServiciosDef(u) == IF u.servicios.k = "nokey" THEN Dict(MapaVacio) ELSE u.servicios

\* Python truth value of a services value: None and {} are falsy
Truthy(servicios) == servicios.k = "dict" /\ \E c \in Tipos : servicios.m[c].p

-----------------------------------------------------------------------------
\* mutant: a list counts even when it holds no item
tiene_lista_sin_contar(servicios) ==
    servicios.k = "dict" /\ \E c \in Tipos : servicios.m[c].p

tiene_lista_con_items(servicios) ==
    /\ servicios.k = "dict"
    /\ \E c \in Tipos : servicios.m[c].p /\ Len(servicios.m[c].l) > 0

\* mutant: valorPagoModerador keeps its sign
CamposSignoSoloValor == {"vrServicio"}

CamposSigno == {"vrServicio", "valorPagoModerador"}

\* mutant: the sign is forced on the magnitude
AjustarCampoForzado(v, signo) ==
    IF v.k = "num" THEN Num((IF v.n < 0 THEN 0 - v.n ELSE v.n) * signo) ELSE v

AjustarCampo(v, signo) == IF v.k = "num" THEN Num(v.n * signo) ELSE v

AjustarItem(item, signo) ==
    [campo \in DOMAIN item |->
        IF campo \in CamposSigno THEN AjustarCampo(item[campo], signo) ELSE item[campo]]

ajustar_signo_servicios(servicios, signo) ==
    Dict([c \in Tipos |->
        [p |-> servicios.m[c].p,
         l |-> [i \in 1..Len(servicios.m[c].l) |-> AjustarItem(servicios.m[c].l[i], signo)]]])

\* the loop of validar_estructura_servicios from usuario i on; the indices it
\* appends count from 0
RECURSIVE MalosDesde(_, _)
MalosDesde(usuarios, i) ==
    IF i > Len(usuarios) THEN <<>>
    ELSE (IF ~tiene_lista_con_items(GetServicios(usuarios[i])) THEN <<i - 1>> ELSE <<>>)
            \o MalosDesde(usuarios, i + 1)

validar_estructura_servicios(usuarios) == MalosDesde(usuarios, 1)

-----------------------------------------------------------------------------
\* An object: its value and ref, the place of the factura whose object it is
\* (0: an object of its own).
Obj(v, ref) == [v |-> v, ref |-> ref]

\* mutant: the object itself is taken, not a copy
sin_copia(o) == o

\* copy.deepcopy: an equal value in a new object
deepcopy(o) == Obj(o.v, 0)

\* A write of value v to the services object ref: when it is the object of
\* usuario ref of the factura, the factura and every usuario of the nota that
\* holds that object see it.
EscribirServ(st, ref, v) ==
    IF ref = 0 THEN st
    ELSE [st EXCEPT
            !.fac.usuarios[ref].servicios = v,
            !.nota = [i \in 1..Len(st.nota) |->
                        IF st.alias.serv[i] = ref
                        THEN [st.nota[i] EXCEPT !.servicios = v]
                        ELSE st.nota[i]]]

\* inv_map_full[(tipo, num)] and inv_map_by_num[num]: the last usuario of the
\* factura with that key, 0 when there is none
Ultimo(S) == IF S = {} THEN 0 ELSE CHOOSE j \in S : \A h \in S : h <= j

InvMapFull(inv_users, tipo, num) ==
    Ultimo({j \in 1..Len(inv_users) : inv_users[j].tipo = tipo /\ inv_users[j].num = num})

InvMapByNum(inv_users, num) ==
    Ultimo({j \in 1..Len(inv_users) : inv_users[j].num = num})

\* the value a map holds for usuario j: u.get("servicios", {}), the object of
\* the factura unless the key is missing; None for a missing map key
MapGet(inv_users, j) ==
    IF j = 0 THEN Obj(ServNulo, 0)
    ELSE IF inv_users[j].servicios.k = "nokey" THEN Obj(Dict(MapaVacio), 0)
    ELSE Obj(inv_users[j].servicios, j)

\* inv_map_full.get(key_full) or inv_map_by_num.get(num)
ServiciosOrigen(inv_users, tipo, num) ==
    LET full == MapGet(inv_users, InvMapFull(inv_users, tipo, num))
    IN  IF Truthy(full.v) THEN full
        ELSE MapGet(inv_users, InvMapByNum(inv_users, num))

\* one pass of the loop over note_users, for usuario i
CopiarUsuario(st, i, forzar_signo) ==
    LET u == st.nota[i]
        origen == ServiciosOrigen(st.fac.usuarios, u.tipo, u.num)
    IN  IF tiene_lista_con_items(GetServicios(u))
        THEN [st EXCEPT !.ya = @ + 1]
        ELSE IF origen.v.k = "null"
        THEN [st EXCEPT !.sin = Append(@, <<u.tipo, u.num>>)]
        ELSE LET nuevo == deepcopy(origen)
                 v == IF forzar_signo \in {1, -1}
                      THEN ajustar_signo_servicios(nuevo.v, forzar_signo)
                      ELSE nuevo.v
                 st2 == EscribirServ(st, nuevo.ref, v)
             IN  [st2 EXCEPT !.nota[i].servicios = v,
                             !.alias.serv[i] = nuevo.ref,
                             !.mod = @ + 1]

RECURSIVE CopiarDesde(_, _, _)
CopiarDesde(st, i, forzar_signo) ==
    IF i > Len(st.nota) THEN st
    ELSE CopiarDesde(CopiarUsuario(st, i, forzar_signo), i + 1, forzar_signo)

\* the lists of the maps are built from the factura as it is on entry; the
\* values they hold are its objects
copiar_servicios_factura_a_nota(fac, nt, al, forzar_signo) ==
    LET fin == CopiarDesde([fac |-> fac, nota |-> nt, alias |-> al,
                            mod |-> 0, ya |-> 0, sin |-> <<>>], 1, forzar_signo)
    IN  [fac |-> fin.fac, nota |-> fin.nota, alias |-> fin.alias,
         resumen |-> [total_usuarios_factura |-> Len(fac.usuarios),
                      total_usuarios_nota |-> Len(nt),
                      usuarios_modificados |-> fin.mod,
                      usuarios_ya_tenian_servicios |-> fin.ya,
                      usuarios_sin_encontrar |-> fin.sin]]

-----------------------------------------------------------------------------
\* Template cells are scalars: a number, a text, or NaN/None (Nulo).

\* the numbers the texts of the model spell
Digitos == [s \in {"60"} |-> 60]

\* int(x) and float(x): [ok, n]; ok is FALSE when Python raises
int_(x) ==
    IF x.k = "num" THEN [ok |-> TRUE, n |-> x.n]
    ELSE IF x.k = "str" /\ x.s \in DOMAIN Digitos THEN [ok |-> TRUE, n |-> Digitos[x.s]]
    ELSE [ok |-> FALSE, n |-> 0]

float_(x) ==
    IF x.k = "num" THEN [ok |-> TRUE, n |-> x.n]
    ELSE IF x.k = "str" /\ x.s \in DOMAIN Digitos THEN [ok |-> TRUE, n |-> Digitos[x.s]]
    ELSE [ok |-> FALSE, n |-> 0]

\* pd.isna
isna(x) == x.k = "null"

\* the 1-based place a Python index addresses in a list of n elements
\* (a negative index counts from the end); the access raises IndexError
\* unless 1 <= PyPos <= n
PyPos(idx, n) == IF idx >= 0 THEN idx + 1 ELSE n + idx + 1

\* isinstance(lista, list) and idx_item < len(lista)
HayItem(lista, idx_item) == lista.p /\ idx_item < Len(lista.l)

\* mutant: the padding stops one item short
RECURSIVE AppendVaciosCorto(_, _)
AppendVaciosCorto(l, idx_item) ==
    IF Len(l) < idx_item THEN AppendVaciosCorto(Append(l, ItemVacio), idx_item) ELSE l

\* while len(lista) <= idx_item: lista.append({})
RECURSIVE AppendVacios(_, _)
AppendVacios(l, idx_item) ==
    IF Len(l) <= idx_item THEN AppendVacios(Append(l, ItemVacio), idx_item) ELSE l

\* mutant: the error is not recorded
AnotarNada(errs, e) == errs

\* errores.append(...): the errors are kept by kind, without the text
Anotar(errs, e) == Append(errs, e)

\* what one row leaves: the documents, the errors, and abort, TRUE when an
\* exception leaves aplicar_plantilla_servicios
Fin(fac, nt, al, errs, abort) ==
    [fac |-> fac, nota |-> nt, alias |-> al, errores |-> errs, abort |-> abort]

\* mutant: usuario_nota gets a new {} whatever its servicios is
AsegurarDictNuevo(st, u) ==
    [st EXCEPT !.nota[u].servicios = Dict(MapaVacio), !.alias.serv[u] = 0]

\* lines 349-353: usuario_nota gets a new {} unless its servicios is a dict
AsegurarDict(st, u) ==
    IF st.nota[u].servicios.k = "dict" THEN st
    ELSE [st EXCEPT !.nota[u].servicios = Dict(MapaVacio), !.alias.serv[u] = 0]

\* servicios_nota[tipo_serv] takes the list l: a write to the services object
\* of usuario u of the nota
PonerLista(st, u, tipo_serv, l) ==
    LET v == [st.nota[u].servicios EXCEPT !.m[tipo_serv] = Lista(l)]
        st2 == EscribirServ(st, st.alias.serv[u], v)
    IN  [st2 EXCEPT !.nota[u].servicios = v]

\* mutant: the line is replaced by a new item that holds only vrServicio
PonerValorItemNuevo(st, u, tipo_serv, pos, valor) ==
    LET l == st.nota[u].servicios.m[tipo_serv].l
    IN  [st EXCEPT !.nota[u].servicios.m[tipo_serv].l =
                        [l EXCEPT ![pos] = [ItemVacio EXCEPT !.vrServicio = Num(valor)]]]

\* lines 400-415: item_nota["vrServicio"] = valor_nota, a write to the item
\* object at place pos of the list
PonerValor(st, u, tipo_serv, pos, valor) ==
    LET l == st.nota[u].servicios.m[tipo_serv].l
        st2 == PonerLista(st, u, tipo_serv,
                          [l EXCEPT ![pos] = [@ EXCEPT !.vrServicio = Num(valor)]])
    IN  IF [u |-> u, c |-> tipo_serv, i |-> pos] \in st.alias.item
        THEN [st2 EXCEPT
                !.fac.usuarios[u].servicios.m[tipo_serv].l[pos].vrServicio = Num(valor)]
        ELSE st2

\* lines 391-415, with a list in the nota that holds idx_item
ActualizarValor(st, errs, u, tipo_serv, idx_item, vr_nota) ==
    LET lista == st.nota[u].servicios.m[tipo_serv]
        valor_nota == float_(vr_nota)
    IN  IF ~HayItem(lista, idx_item)
        THEN Fin(st.fac, st.nota, st.alias, Anotar(errs, "sin_estructura"), FALSE)
        ELSE IF ~(1 <= PyPos(idx_item, Len(lista.l)) /\ PyPos(idx_item, Len(lista.l)) <= Len(lista.l))
        THEN Fin(st.fac, st.nota, st.alias, errs, TRUE)
        ELSE IF ~valor_nota.ok
        THEN Fin(st.fac, st.nota, st.alias, Anotar(errs, "valor_invalido"), FALSE)
        ELSE LET st2 == PonerValor(st, u, tipo_serv, PyPos(idx_item, Len(lista.l)), valor_nota.n)
             IN  Fin(st2.fac, st2.nota, st2.alias, errs, FALSE)

\* lines 382-389: the base line of the factura is copied into the nota
CopiarLineaBase(st, u, tipo_serv, idx_item, lista_fac) ==
    LET lista == st.nota[u].servicios.m[tipo_serv]
        posf == PyPos(idx_item, Len(lista_fac.l))
        item_base == deepcopy(Obj(lista_fac.l[posf], 1))
        l == AppendVacios(IF lista.p THEN lista.l ELSE <<>>, idx_item)
        pos == PyPos(idx_item, Len(l))
    IN  IF ~(1 <= posf /\ posf <= Len(lista_fac.l)) \/ ~(1 <= pos /\ pos <= Len(l))
        THEN [st |-> st, abort |-> TRUE]
        ELSE LET st2 == PonerLista(st, u, tipo_serv, [l EXCEPT ![pos] = item_base.v])
                 ref == [u |-> u, c |-> tipo_serv, i |-> pos]
             IN  [st |-> [st2 EXCEPT !.alias.item =
                                 IF item_base.ref = 0 THEN @ \ {ref} ELSE @ \cup {ref}],
                  abort |-> FALSE]

\* lines 349-415 for a row with a value and a usuario of the nota
AplicarEnUsuario(st0, errs, idx_u, tipo_serv, idx_item, vr_nota) ==
    LET u == idx_u + 1
        st == AsegurarDict(st0, u)
        lista == st.nota[u].servicios.m[tipo_serv]
    IN  IF HayItem(lista, idx_item)
        THEN ActualizarValor(st, errs, u, tipo_serv, idx_item, vr_nota)
        ELSE IF ~st.fac.cargada
        THEN Fin(st.fac, st.nota, st.alias, Anotar(errs, "sin_factura"), FALSE)
        ELSE IF ~(0 <= idx_u /\ idx_u < Len(st.fac.usuarios))
        THEN Fin(st.fac, st.nota, st.alias, Anotar(errs, "usuario_no_en_factura"), FALSE)
        ELSE LET servicios_fac == GetServiciosDef(st.fac.usuarios[u])
             IN  IF servicios_fac.k # "dict"
                 THEN Fin(st.fac, st.nota, st.alias, errs, TRUE)
                 ELSE IF ~HayItem(servicios_fac.m[tipo_serv], idx_item)
                 THEN Fin(st.fac, st.nota, st.alias, Anotar(errs, "sin_linea_base"), FALSE)
                 ELSE LET c == CopiarLineaBase(st, u, tipo_serv, idx_item,
                                               servicios_fac.m[tipo_serv])
                      IN  IF c.abort
                          THEN Fin(c.st.fac, c.st.nota, c.st.alias, errs, TRUE)
                          ELSE ActualizarValor(c.st, errs, u, tipo_serv, idx_item, vr_nota)

\* one pass of the loop over df.iterrows(), lines 326-415
aplicar_fila(fac, nt, al, errs, fila) ==
    LET idx_u == int_(fila.idx_usuario)
        idx_item == int_(fila.idx_item)
        st == [fac |-> fac, nota |-> nt, alias |-> al]
    IN  IF ~idx_u.ok
        THEN Fin(fac, nt, al, Anotar(errs, "idx_usuario_invalido"), FALSE)
        ELSE IF ~idx_item.ok
        THEN Fin(fac, nt, al, Anotar(errs, "idx_item_invalido"), FALSE)
        ELSE IF isna(fila.vrServicio_nota)
        THEN Fin(fac, nt, al, errs, FALSE)
        ELSE IF ~(0 <= idx_u.n /\ idx_u.n < Len(nt))
        THEN Fin(fac, nt, al, Anotar(errs, "usuario_fuera_de_rango"), FALSE)
        ELSE AplicarEnUsuario(st, errs, idx_u.n, fila.tipo_servicio, idx_item.n,
                              fila.vrServicio_nota)

-----------------------------------------------------------------------------
\* The documents a session is loaded with.

L1 == Item(Num(100), Num(10), Str("A"))
L2 == Item(Num(40), Falta, Str("B"))
L3 == Item(Nulo, Num(5), Str("C"))
L4 == Item(Num(50), Falta, Str("A"))

Servicios(consultas, procedimientos) ==
    Dict([c \in Tipos |-> IF c = "consultas" THEN consultas ELSE procedimientos])

FA == Usuario("CC", "1", Servicios(Lista(<<L1>>), SinLista))
FB == Usuario("TI", "1", Servicios(Lista(<<L1, L2>>), Lista(<<L3>>)))
FC == Usuario("CC", "1", Dict(MapaVacio))
FD == Usuario("CC", "2", ServNulo)
FE == Usuario("TI", "2", SinClave)

NA == Usuario("CC", "1", SinClave)
NB == Usuario("CC", "1", Servicios(Lista(<<L4>>), SinLista))
NC == Usuario("RC", "1", ServNulo)
ND == Usuario("CC", "2", Servicios(Lista(<<>>), SinLista))

SinFactura == [cargada |-> FALSE, usuarios |-> <<>>]
Factura(usuarios) == [cargada |-> TRUE, usuarios |-> usuarios]

Facturas ==
    {SinFactura} \cup
    {Factura(us) : us \in {<<FA>>, <<FB>>, <<FC>>, <<FD>>, <<FE>>,
                           <<FA, FB>>, <<FB, FA>>, <<FC, FB>>, <<FD, FA>>,
                           <<FE, FB>>, <<FB, FD>>, <<FA, FC>>}}

Notas == {<<NA>>, <<NB>>, <<NC>>, <<ND>>,
          <<NA, NB>>, <<NB, NA>>, <<ND, NC>>, <<NC, NA>>}

SinAlias(nt) == [serv |-> [i \in 1..Len(nt) |-> 0], item |-> {}]

SinResumen == [total_usuarios_factura |-> 0, total_usuarios_nota |-> 0,
               usuarios_modificados |-> 0, usuarios_ya_tenian_servicios |-> 0,
               usuarios_sin_encontrar |-> <<>>]

\* the rows a template may hold
IndicesUsuario == {Num(-1), Num(0), Num(1), Nulo}
IndicesItem == {Num(0), Num(1), Nulo}
Valores == {Nulo, Num(75), Str("abc")}
Filas == [idx_usuario : IndicesUsuario, tipo_servicio : Tipos, idx_item : IndicesItem,
          vrServicio_nota : Valores]
SinFila == [idx_usuario |-> Nulo, tipo_servicio |-> "", idx_item |-> Nulo,
            vrServicio_nota |-> Nulo]

Signos == {0, 1, -1}

\* the nota object a handler found in the session: op, the handler; antes, the
\* value it had when the handler began; misma, the handler works on that very
\* object, which stays the nota of the session
Previa(op, antes, misma) == [op |-> op, antes |-> antes, misma |-> misma]

\* the services the text area of the single-usuario editor may be saved with
ServiciosEditados == {Servicios(Lista(<<L2>>), SinLista)}

-----------------------------------------------------------------------------
Init ==
    /\ factura \in Facturas
    /\ nota \in Notas
    /\ alias = SinAlias(nota)
    /\ pc = "idle"
    /\ ultima_fila = SinFila
    /\ errores = <<>>
    /\ ultimo_signo = 0
    /\ resumen = SinResumen
    /\ nota_previa = Previa("", nota, FALSE)
    /\ malos = <<>>
    /\ nfilas = 0
    /\ nops = 0

\* "Rellenar servicios vacios desde factura": the copy runs on a deep copy of
\* the nota of the session, which then takes its place (signo 0: None)
BotonRellenar(signo) ==
    /\ pc # "filas"
    /\ nops < MaxOps
    /\ factura.cargada
    /\ LET nota_trabajo == deepcopy(Obj(nota, 1))
           al == IF nota_trabajo.ref = 0 THEN SinAlias(nota) ELSE alias
           r == copiar_servicios_factura_a_nota(factura, nota_trabajo.v, al, signo)
       IN  /\ factura' = r.fac
           /\ nota' = r.nota
           /\ alias' = r.alias
           /\ resumen' = r.resumen
           /\ nota_previa' = Previa("rellenar", nota, nota_trabajo.ref # 0)
           /\ malos' = validar_estructura_servicios(r.nota)
    /\ ultimo_signo' = signo
    /\ pc' = "idle"
    /\ nops' = nops + 1
    /\ UNCHANGED <<ultima_fila, errores, nfilas>>

\* "Aplicar cambios desde plantilla": the template is read and the loop over
\* its rows begins
BotonAplicar ==
    /\ pc # "filas"
    /\ nops < MaxOps
    /\ pc' = "filas"
    /\ errores' = <<>>
    /\ nops' = nops + 1
    /\ nota_previa' = Previa("aplicar", nota, TRUE)
    /\ UNCHANGED <<factura, nota, alias, ultima_fila, ultimo_signo, resumen, malos, nfilas>>

\* one row of the template; an exception leaves the handler
ProcesarFila(f) ==
    /\ pc = "filas"
    /\ nfilas < MaxRows
    /\ ultima_fila' = f
    /\ LET r == aplicar_fila(factura, nota, alias, errores, f)
       IN  /\ factura' = r.fac
           /\ nota' = r.nota
           /\ alias' = r.alias
           /\ errores' = r.errores
           /\ pc' = IF r.abort THEN "abortado" ELSE "filas"
    /\ nfilas' = nfilas + 1
    /\ UNCHANGED <<ultimo_signo, resumen, nota_previa, malos, nops>>

\* the rows are exhausted: nota and errores are returned
FinPlantilla ==
    /\ pc = "filas"
    /\ pc' = "idle"
    /\ UNCHANGED <<factura, nota, alias, ultima_fila, errores, ultimo_signo, resumen,
                   nota_previa, malos, nfilas, nops>>

\* "Guardar cambios en este usuario": the services parsed from the text area
\* are put in usuario idx_sel of the nota of the session, in place
BotonGuardar(idx_sel, servicios_nuevos) ==
    /\ pc # "filas"
    /\ nops < MaxOps
    /\ 0 <= idx_sel /\ idx_sel < Len(nota)
    /\ nota' = [nota EXCEPT ![idx_sel + 1].servicios = servicios_nuevos]
    /\ alias' = [serv |-> [alias.serv EXCEPT ![idx_sel + 1] = 0],
                 item |-> {r \in alias.item : r.u # idx_sel + 1}]
    /\ nota_previa' = Previa("guardar", nota, TRUE)
    /\ pc' = "idle"
    /\ nops' = nops + 1
    /\ UNCHANGED <<factura, ultima_fila, errores, ultimo_signo, resumen, malos, nfilas>>

Next ==
    \/ \E signo \in Signos : BotonRellenar(signo)
    \/ BotonAplicar
    \/ \E f \in Filas : ProcesarFila(f)
    \/ FinPlantilla

Spec == Init /\ [][Next]_vars

\* the session with the single-usuario editor as well
NextEdicion ==
    \/ Next
    \/ \E idx_sel \in 0..(Len(nota) - 1), servicios_nuevos \in ServiciosEditados :
            BotonGuardar(idx_sel, servicios_nuevos)

SpecEdicion == Init /\ [][NextEdicion]_vars

-----------------------------------------------------------------------------
\* ajustar_signo_servicios on its own: it is applied, in place, to the services
\* of the only usuario of a nota, again and again.

CamposValor == {Num(-3), Num(0), Num(7), Str("x"), Nulo, Falta}
ItemsSigno == {Item(vr, vpm, Str("A")) : vr \in CamposValor, vpm \in CamposValor}
ServiciosSigno ==
    {Servicios(c, p) :
        c \in {Lista(<<>>)} \cup {Lista(<<it>>) : it \in ItemsSigno}
                \cup {Lista(<<L2, it>>) : it \in ItemsSigno},
        p \in {SinLista, Lista(<<L3>>)}}

InitSigno ==
    /\ factura = SinFactura
    /\ nota \in {<<Usuario("CC", "1", s)>> : s \in ServiciosSigno}
    /\ alias = SinAlias(nota)
    /\ pc = "signo"
    /\ ultima_fila = SinFila
    /\ errores = <<>>
    /\ ultimo_signo = 0
    /\ resumen = SinResumen
    /\ nota_previa = Previa("", nota, FALSE)
    /\ malos = <<>>
    /\ nfilas = 0
    /\ nops = 0

AplicarSigno(signo) ==
    /\ pc = "signo"
    /\ nops < MaxOps
    /\ nota' = [nota EXCEPT ![1].servicios = ajustar_signo_servicios(@, signo)]
    /\ nota_previa' = Previa("signo", nota, TRUE)
    /\ ultimo_signo' = signo
    /\ nops' = nops + 1
    /\ UNCHANGED <<factura, alias, pc, ultima_fila, errores, resumen, malos, nfilas>>

NextSigno == \E signo \in {1, -1} : AplicarSigno(signo)

SpecSigno == InitSigno /\ [][NextSigno]_vars

-----------------------------------------------------------------------------
\* Vocabulary of the properties, stated apart from the operators above.

\* a services value is valid: a mapping with at least one non-empty list
EsValido(servicios) ==
    servicios.k = "dict" /\ \E c \in Tipos : servicios.m[c].p /\ servicios.m[c].l # <<>>

\* the usuarios of a list without a valid services value
Invalidos(nt) == {i \in 1..Len(nt) : ~EsValido(nt[i].servicios)}

\* the items of every list of a list of usuarios
Items(nt) ==
    UNION {{nt[i].servicios.m[c].l[j] : j \in 1..Len(nt[i].servicios.m[c].l)} :
            i \in 1..Len(nt), c \in Tipos}

\* a services value with the two amounts of every item multiplied by signo,
\* where they are numbers (signo 0: as it is)
ConSignoItem(item, signo) ==
    [item EXCEPT
        !.vrServicio = IF @.k = "num" THEN Num(@.n * signo) ELSE @,
        !.valorPagoModerador = IF @.k = "num" THEN Num(@.n * signo) ELSE @]
ConSigno(servicios, signo) ==
    IF signo = 0 THEN servicios
    ELSE [servicios EXCEPT
            !.m = [c \in Tipos |->
                    [@[c] EXCEPT !.l = [j \in 1..Len(@) |-> ConSignoItem(@[j], signo)]]]]

\* this step is a run of the copy / the loop's pass over one row
PasoCopia ==
    pc # "filas" /\ pc' = "idle" /\ nops' = nops + 1 /\ nota_previa'.op = "rellenar"
PasoFila == pc = "filas" /\ nfilas' = nfilas + 1

\* the copy is the only handler that has changed the nota so far, and it ran last
RecienCopiada ==
    pc = "idle" /\ nfilas = 0 /\ resumen # SinResumen /\ nota_previa.op = "rellenar"

\* the lines of the nota and of the factura at usuario idx_u, list tipo_serv
EnNota(idx_u) == 0 <= idx_u /\ idx_u < Len(nota)
LineasNota(idx_u, tipo_serv) ==
    LET sv == nota[idx_u + 1].servicios
    IN  IF sv.k = "dict" /\ sv.m[tipo_serv].p THEN sv.m[tipo_serv].l ELSE <<>>
LineasFactura(idx_u, tipo_serv) ==
    IF /\ factura.cargada /\ 0 <= idx_u /\ idx_u < Len(factura.usuarios)
       /\ factura.usuarios[idx_u + 1].servicios.k = "dict"
       /\ factura.usuarios[idx_u + 1].servicios.m[tipo_serv].p
    THEN factura.usuarios[idx_u + 1].servicios.m[tipo_serv].l
    ELSE <<>>
HayLinea(lineas, idx_item) == 0 <= idx_item /\ idx_item < Len(lineas)

\* rows whose two indices are integers, those that carry a value, and those
\* whose value is a number
FilasEnteras == {f \in Filas : int_(f.idx_usuario).ok /\ int_(f.idx_item).ok}
FilasConValor == {f \in FilasEnteras : ~isna(f.vrServicio_nota)}
FilasConNumero == {f \in FilasConValor : float_(f.vrServicio_nota).ok}
IdxU(f) == int_(f.idx_usuario).n
IdxItem(f) == int_(f.idx_item).n
Valor(f) == float_(f.vrServicio_nota).n

-----------------------------------------------------------------------------
\* C1 (as claimed): when the copy runs again on the nota a first run left,
\* with the same factura and sign, it reports 0 usuarios_modificados and
\* leaves the nota as it was.
C1_SegundaCopiaSinModificados ==
    [][(RecienCopiada /\ PasoCopia /\ ultimo_signo' = ultimo_signo) =>
            (resumen'.usuarios_modificados = 0 /\ nota' = nota)]_vars

\* What the second run does: it leaves the nota as it was and reports the
\* same usuarios_sin_encontrar; every valid usuario is counted in
\* usuarios_ya_tenian_servicios, and usuarios_modificados counts the usuarios
\* the first run found in the factura and left invalid (the services it copied
\* hold no item): it is 0 exactly when there is none.
SegundaCopiaEstable ==
    [][(RecienCopiada /\ PasoCopia /\ ultimo_signo' = ultimo_signo) =>
            /\ nota' = nota
            /\ resumen'.usuarios_sin_encontrar = resumen.usuarios_sin_encontrar
            /\ resumen'.usuarios_ya_tenian_servicios = Len(nota) - Cardinality(Invalidos(nota))
            /\ resumen'.usuarios_modificados =
                 Cardinality(Invalidos(nota)) - Len(resumen.usuarios_sin_encontrar)]_vars

\* a state the property above speaks of: a first copy with sign -1 filled a
\* usuario (vrServicio -100), and the second copy, with the same sign, found
\* it with services
SegundaCopiaAlcanzada ==
    /\ nops = 2 /\ nfilas = 0 /\ pc = "idle" /\ ultimo_signo = -1
    /\ resumen.usuarios_modificados = 0
    /\ resumen.usuarios_ya_tenian_servicios >= 1
    /\ \E it \in Items(nota) : it.vrServicio = Num(-100)

\* C2 (as claimed): when the factura has a usuario with the tipo and num of an
\* invalid usuario of the nota, the services the copy gives that usuario are
\* those of a usuario of the factura with that tipo and num, whatever they
\* hold, and never those of one that only shares the num.
C2_ClaveCompletaPrimero ==
    [][PasoCopia =>
        \A i \in Invalidos(nota) :
            LET iguales == {j \in 1..Len(factura.usuarios) :
                                /\ factura.usuarios[j].tipo = nota[i].tipo
                                /\ factura.usuarios[j].num = nota[i].num
                                /\ factura.usuarios[j].servicios.k # "null"}
            IN  iguales # {} =>
                    \E j \in iguales :
                        nota'[i].servicios =
                            ConSigno(GetServiciosDef(factura.usuarios[j]), ultimo_signo')]_vars

\* C3: no step of the copy or of a template changes the factura.
C3_FacturaIntacta == [][factura' = factura]_vars

\* C3 witness: the copy with sign -1 gave the nota a line of the factura
\* (vrServicio -100, valorPagoModerador -10), a row of a template then wrote
\* 75 over its vrServicio, and the factura still holds the line as loaded
C3_Witness ==
    /\ nops = 2 /\ nfilas >= 1
    /\ Item(Num(75), Num(-10), Str("A")) \in Items(nota)
    /\ L1 \in Items(factura.usuarios)

\* the lists of items of every usuario (a usuario without a services dict has
\* none)
Lineas(nt) == [i \in 1..Len(nt) |-> nt[i].servicios.m]

\* C4 (as claimed, the part about the nota): a row whose value is no number
\* does not change the nota.  The nota is compared by its lists of items, so
\* that the empty dict lines 351-353 give a usuario without services is not
\* counted as a change.
C4_ValorInvalidoNoMuta ==
    [][(PasoFila /\ ultima_fila' \in FilasConValor /\ ~float_(ultima_fila'.vrServicio_nota).ok) =>
            Lineas(nota') = Lineas(nota)]_vars

\* C5 (as claimed): a row with a value whose idx_usuario is an integer outside
\* 0..len(usuarios)-1 records the out-of-range error, leaves the nota as it
\* was, and the loop goes on.
C5_FueraDeRango ==
    [][(/\ PasoFila
        /\ int_(ultima_fila'.idx_usuario).ok
        /\ ~isna(ultima_fila'.vrServicio_nota)
        /\ ~EnNota(IdxU(ultima_fila'))) =>
            /\ errores' = Append(errores, "usuario_fuera_de_rango")
            /\ nota' = nota
            /\ pc' = "filas"]_vars

\* C5 (amended): a row with a value whose idx_usuario is an integer outside
\* 0..len(usuarios)-1 records one error, leaves the nota as it was, and the
\* loop goes on; the error is the out-of-range error when idx_item is an
\* integer, and the invalid-item-index error when it is not.
C5_FueraDeRangoEntero ==
    [][(/\ PasoFila
        /\ int_(ultima_fila'.idx_usuario).ok
        /\ ~isna(ultima_fila'.vrServicio_nota)
        /\ ~EnNota(IdxU(ultima_fila'))) =>
            /\ errores' = Append(errores, IF int_(ultima_fila'.idx_item).ok
                                          THEN "usuario_fuera_de_rango"
                                          ELSE "idx_item_invalido")
            /\ nota' = nota
            /\ pc' = "filas"]_vars

\* C5 witness: a row out of range was recorded, and a row after it was
\* processed: it wrote 75 over a line of the nota
C5_Witness ==
    /\ pc = "filas" /\ nfilas = 2
    /\ errores = <<"usuario_fuera_de_rango">>
    /\ ultima_fila \in FilasConNumero /\ EnNota(IdxU(ultima_fila))
    /\ \E it \in Items(nota) : it.vrServicio = Num(75)


\* C6: a row with a number for a line the nota has changes the vrServicio of
\* that line to the number and nothing else of the nota; it records no error
\* and the loop goes on.
C6_SoloVrServicio ==
    [][(/\ PasoFila
        /\ ultima_fila' \in FilasConNumero
        /\ EnNota(IdxU(ultima_fila'))
        /\ HayLinea(LineasNota(IdxU(ultima_fila'), ultima_fila'.tipo_servicio),
                    IdxItem(ultima_fila'))) =>
            LET f == ultima_fila'
            IN  /\ nota' = [nota EXCEPT
                             ![IdxU(f) + 1].servicios.m[f.tipo_servicio].l[IdxItem(f) + 1].vrServicio =
                                 Num(Valor(f))]
                /\ errores' = errores
                /\ pc' = "filas"]_vars

\* C6 witness: the row (0, consultas, 0, 75) was applied to a nota whose first
\* usuario held the line L4: its vrServicio is 75 and its other fields are L4's
C6_Witness ==
    /\ pc = "filas" /\ nfilas = 1 /\ nops = 1 /\ errores = <<>>
    /\ ultima_fila = [idx_usuario |-> Num(0), tipo_servicio |-> "consultas",
                      idx_item |-> Num(0), vrServicio_nota |-> Num(75)]
    /\ nota[1].servicios.m["consultas"].l = <<[L4 EXCEPT !.vrServicio = Num(75)]>>
    /\ nota[1].servicios.m["procedimientos"] = SinLista

\* C7: a row with a number for a line k the nota lacks (its list has n <= k
\* items, or is missing) and the factura has at the same usuario, list and
\* place leaves that list of the nota with k+1 items: the n it had, then empty
\* items, then the line of the factura with vrServicio set to the number.
C7_CopiaLineaBase ==
    [][(/\ PasoFila
        /\ ultima_fila' \in FilasConNumero
        /\ EnNota(IdxU(ultima_fila'))
        /\ IdxItem(ultima_fila') >= Len(LineasNota(IdxU(ultima_fila'), ultima_fila'.tipo_servicio))
        /\ HayLinea(LineasFactura(IdxU(ultima_fila'), ultima_fila'.tipo_servicio),
                    IdxItem(ultima_fila'))) =>
            LET f == ultima_fila'
                k == IdxItem(f)
                antes == LineasNota(IdxU(f), f.tipo_servicio)
                base == LineasFactura(IdxU(f), f.tipo_servicio)[k + 1]
                sv == nota'[IdxU(f) + 1].servicios
            IN  /\ sv.k = "dict" /\ sv.m[f.tipo_servicio].p
                /\ Len(sv.m[f.tipo_servicio].l) = k + 1
                /\ \A j \in 1..Len(antes) : sv.m[f.tipo_servicio].l[j] = antes[j]
                /\ \A j \in (Len(antes) + 1)..k : sv.m[f.tipo_servicio].l[j] = ItemVacio
                /\ sv.m[f.tipo_servicio].l[k + 1] = [base EXCEPT !.vrServicio = Num(Valor(f))]
                /\ pc' = "filas"]_vars

\* C7 witness: the row (1, consultas, 1, 75) was applied where the second
\* usuario of the nota had no services and the second of the factura is FB:
\* the list is an empty item, then L2 with vrServicio 75
C7_Witness ==
    /\ pc = "filas" /\ Len(nota) = 2
    /\ ultima_fila = [idx_usuario |-> Num(1), tipo_servicio |-> "consultas",
                      idx_item |-> Num(1), vrServicio_nota |-> Num(75)]
    /\ nota[2].servicios.m["consultas"].l = <<ItemVacio, [L2 EXCEPT !.vrServicio = Num(75)]>>

\* C8 (as claimed): a row with a value for a usuario of the nota, whose line
\* is neither in the nota nor in the factura at the same place (no factura, no
\* such usuario, no services, no such list, no such item), records one error
\* and the loop goes on.
C8_SinLineaBase ==
    [][(/\ PasoFila
        /\ ultima_fila' \in FilasConValor
        /\ EnNota(IdxU(ultima_fila'))
        /\ ~HayLinea(LineasNota(IdxU(ultima_fila'), ultima_fila'.tipo_servicio),
                     IdxItem(ultima_fila'))
        /\ ~HayLinea(LineasFactura(IdxU(ultima_fila'), ultima_fila'.tipo_servicio),
                     IdxItem(ultima_fila'))) =>
            /\ Len(errores') = Len(errores) + 1
            /\ pc' = "filas"]_vars

\* C9 (as claimed): a row without a value changes neither the nota nor the
\* errors, whatever its idx_usuario, tipo_servicio and idx_item.
C9_FilaSinValor ==
    [][(PasoFila /\ isna(ultima_fila'.vrServicio_nota)) =>
            (nota' = nota /\ errores' = errores)]_vars

\* the keys of the usuarios of nt at the places of S, in the order of nt
RECURSIVE ClavesDe(_, _, _)
ClavesDe(nt, S, i) ==
    IF i > Len(nt) THEN <<>>
    ELSE (IF i \in S THEN <<(<<nt[i].tipo, nt[i].num>>)>> ELSE <<>>) \o ClavesDe(nt, S, i + 1)

\* what the copy finds in the factura for usuario i of the nota (None: k "null")
Hallado(i) == ServiciosOrigen(factura.usuarios, nota[i].tipo, nota[i].num).v

\* C10: the copy keeps the usuarios of the nota and their order; a usuario
\* with valid services is left as it was and counted in
\* usuarios_ya_tenian_servicios; an invalid one found in the factura gets the
\* services found, with vrServicio and valorPagoModerador of every item
\* multiplied by the sign (as they are when no sign is given), and is counted
\* in usuarios_modificados; an invalid one not found is left as it was, and
\* its key is listed, in the order of the nota; every usuario is counted once.
C10_CopiaPorUsuario ==
    [][PasoCopia =>
        LET validos == (1..Len(nota)) \ Invalidos(nota)
            hallados == {i \in Invalidos(nota) : Hallado(i).k # "null"}
            perdidos == {i \in Invalidos(nota) : Hallado(i).k = "null"}
        IN  /\ Len(nota') = Len(nota)
            /\ \A i \in validos \cup perdidos : nota'[i] = nota[i]
            /\ \A i \in hallados :
                 nota'[i] = [nota[i] EXCEPT !.servicios = ConSigno(Hallado(i), ultimo_signo')]
            /\ resumen'.usuarios_ya_tenian_servicios = Cardinality(validos)
            /\ resumen'.usuarios_modificados = Cardinality(hallados)
            /\ resumen'.usuarios_sin_encontrar = ClavesDe(nota, perdidos, 1)
            /\ resumen'.total_usuarios_nota = Len(nota)
            /\ resumen'.total_usuarios_factura = Len(factura.usuarios)]_vars

\* C10 witness: the copy with sign -1 ran on a nota of a usuario with services
\* and one without: one counted, one filled with L1 negated
C10_Witness ==
    /\ nops = 1 /\ pc = "idle" /\ ultimo_signo = -1
    /\ resumen.usuarios_ya_tenian_servicios = 1
    /\ resumen.usuarios_modificados = 1
    /\ Item(Num(-100), Num(-10), Str("A")) \in Items(nota)
    /\ L4 \in Items(nota)

\* the usuarios of the factura with the tipo and num, and with the num, of
\* usuario i of the nota
ConClave(i) ==
    {j \in 1..Len(factura.usuarios) :
        factura.usuarios[j].tipo = nota[i].tipo /\ factura.usuarios[j].num = nota[i].num}
ConNumero(i) == {j \in 1..Len(factura.usuarios) : factura.usuarios[j].num = nota[i].num}

\* C11 (as claimed): in the copy, an invalid usuario of the nota whose tipo and
\* num are those of no usuario of the factura, and whose num is that of some,
\* gets the services of the last usuario of the factura with that num; and
\* the invalid usuarios listed in usuarios_sin_encontrar, with their keys, and
\* left as they were, are exactly those whose key and whose num are those of
\* no usuario of the factura.
C11_DosNiveles ==
    [][PasoCopia =>
        LET perdidos == {i \in Invalidos(nota) : ConClave(i) = {} /\ ConNumero(i) = {}}
        IN  /\ \A i \in Invalidos(nota) :
                 (ConClave(i) = {} /\ ConNumero(i) # {}) =>
                    nota'[i].servicios =
                        ConSigno(GetServiciosDef(factura.usuarios[Ultimo(ConNumero(i))]),
                                 ultimo_signo')
            /\ resumen'.usuarios_sin_encontrar = ClavesDe(nota, perdidos, 1)
            /\ \A i \in perdidos : nota'[i] = nota[i]]_vars

\* the value the object of nota_previa has now: it is the nota of the session
\* when the handler worked on it, and untouched otherwise
ValorPrevia == IF nota_previa.misma THEN nota ELSE nota_previa.antes

\* C12 (as claimed): when a handler that changes the nota (the copy, a
\* template, the single-usuario editor) has ended, the nota object the
\* session held before it has the value it had, and the nota of the session
\* is another object.
C12_CopiaAlEscribir ==
    pc # "filas" => (ValorPrevia = nota_previa.antes /\ ~nota_previa.misma)

\* C13: when ajustar_signo_servicios is applied with sign -1 to services it
\* has just been applied to with sign -1, the services are again what they
\* were before the first of the two: every vrServicio and valorPagoModerador
\* has its value back, and nothing else has changed.
C13_SignoInvolucion ==
    [][(nota_previa.op = "signo" /\ ultimo_signo = -1 /\ ultimo_signo' = -1) =>
            nota' = nota_previa.antes]_vars

\* C13 witness: sign -1 was applied twice to services with a vrServicio of 7
\* and a valorPagoModerador that is a text: in between the vrServicio was -7,
\* and it is 7 again
C13_Witness ==
    /\ pc = "signo" /\ nops = 2 /\ ultimo_signo = -1
    /\ Item(Num(-7), Str("x"), Str("A")) \in Items(nota_previa.antes)
    /\ Item(Num(7), Str("x"), Str("A")) \in Items(nota)

\* C14: tiene_lista_con_items is true of the services of a usuario exactly
\* when they are a dict with a list that holds at least one item (false when
\* the key is missing or the value is no dict); and the list
\* validar_estructura_servicios returns for the nota the copy leaves holds
\* exactly the indices, from 0, of the usuarios whose services are not so, in
\* ascending order.
C14_IndicesInvalidos ==
    [][PasoCopia =>
        /\ \A i \in 1..Len(nota') :
             tiene_lista_con_items(GetServicios(nota'[i])) <=> EsValido(nota'[i].servicios)
        /\ {malos'[k] : k \in 1..Len(malos')} = {i - 1 : i \in Invalidos(nota')}
        /\ \A k \in 1..(Len(malos') - 1) : malos'[k] < malos'[k + 1]]_vars

\* C14 witness: after a copy, both usuarios of the nota are listed, in order:
\* one got services without items from the factura, the other was not found
C14_Witness ==
    /\ pc = "idle" /\ nota_previa.op = "rellenar"
    /\ malos = <<0, 1>>
    /\ resumen.usuarios_modificados = 1 /\ Len(resumen.usuarios_sin_encontrar) = 1

\* the place a row addresses, and the set of the errors of a list
Lugar(f) == <<IdxU(f), f.tipo_servicio, IdxItem(f)>>
Conjunto(errs) == {errs[k] : k \in 1..Len(errs)}

\* the rows f then g applied to the nota a template began with
EnOrden(f, g) ==
    LET r1 == aplicar_fila(factura, nota_previa.antes, SinAlias(nota_previa.antes), <<>>, f)
    IN  IF r1.abort THEN r1 ELSE aplicar_fila(r1.fac, r1.nota, r1.alias, r1.errores, g)

\* C15 (as claimed): when a template has applied two rows with numbers for
\* different places (usuario, list, item), f and then g, the nota and the set
\* of errors are those the rows leave when g is applied before f.  Stated
\* where neither order ends in an exception.
C15_FilasIndependientes ==
    [][(/\ PasoFila /\ pc' = "filas" /\ nota_previa.op = "aplicar"
        /\ ultima_fila \in FilasConNumero /\ ultima_fila' \in FilasConNumero
        /\ Lugar(ultima_fila) # Lugar(ultima_fila')
        /\ ~EnOrden(ultima_fila, ultima_fila').abort
        /\ EnOrden(ultima_fila, ultima_fila').nota = nota'
        /\ EnOrden(ultima_fila, ultima_fila').errores = errores'
        /\ ~EnOrden(ultima_fila', ultima_fila).abort) =>
            /\ EnOrden(ultima_fila', ultima_fila).nota = nota'
            /\ Conjunto(EnOrden(ultima_fila', ultima_fila).errores) = Conjunto(errores')]_vars

\* C16: no step of the copy or of a template makes invalid the services of a
\* usuario that were valid: what validar_estructura_servicios would return
\* for the nota gains no index.
C16_ValidezMonotona ==
    [][/\ Len(nota') = Len(nota)
       /\ \A i \in 1..Len(nota) :
            EsValido(nota[i].servicios) => EsValido(nota'[i].servicios)
       /\ Conjunto(validar_estructura_servicios(nota'))
            \subseteq Conjunto(validar_estructura_servicios(nota))]_vars

\* C16 witness: the copy left a valid usuario as it was and filled the other,
\* two rows of a template then wrote 75 in a line of each, and both usuarios are
\* valid
C16_Witness ==
    /\ pc = "filas" /\ nfilas = 2 /\ nops = 2 /\ errores = <<>>
    /\ resumen.usuarios_ya_tenian_servicios = 1 /\ resumen.usuarios_modificados = 1
    /\ Len(nota) = 2
    /\ \A i \in 1..2 :
         /\ EsValido(nota[i].servicios)
         /\ nota[i].servicios.m["consultas"].l[1].vrServicio = Num(75)

====
